---- MODULE Spec2Model ----
(***************************************************************************)
(* Gemini exchange adapter of cryptofeed (cryptofeed/exchanges/gemini.py): *)
(* the per-symbol order-book replicas, the subscribe operation and the     *)
(* websocket message handler with its book, trade and order sub-handlers,  *)
(* the token signer generate_token and the catalog builder                 *)
(* _parse_symbol_data.                                                     *)
(*                                                                         *)
(* Frames are modelled after json.loads: an object is a record whose       *)
(* DOMAIN is the set of keys present, a JSON array is a sequence; both are *)
(* wrapped in [shape, ...] so that isinstance(msg, list) can be decided.   *)
(* Decimal values are integers, produced from wire text by Decimal.        *)
(***************************************************************************)
EXTENDS Integers, Sequences, FiniteSets, TLC

VARIABLES subscription, l2_book, fresh, call, raised, emitted, delta, sent,
          credentials, clock, tokens, catalog, consumer, pending

vars == <<subscription, l2_book, fresh, call, raised, emitted, delta, sent,
          credentials, clock, tokens, catalog, consumer, pending>>

(***************************************************************************)
(* Bounds of the model.                                                    *)
(***************************************************************************)
MaxChanges == 2
MaxBatch == 2
MaxTokens == 2
MaxClock == 2
MaxInstruments == 2

(***************************************************************************)
(* cryptofeed.defines, as imported on line 20.                             *)
(***************************************************************************)
L2_BOOK == "l2_book"
TRADES == "trades"
ORDER_INFO == "order_info"
BID == "bid"
ASK == "ask"
BUY == "buy"
SELL == "sell"
SUBMITTING == "submitting"
FILLED == "filled"
OPEN == "open"
FAILED == "failed"
CANCELLED == "cancelled"
LIMIT == "limit"
STOP_LIMIT == "stop-limit"

websocket_channels == {L2_BOOK, TRADES, ORDER_INFO}

\* The two websocket endpoints and the channels each one carries.
Conns == {"marketdata", "order_events"}

channel_filter(c) == IF c = "marketdata" THEN {L2_BOOK, TRADES} ELSE {ORDER_INFO}

\* conn.subscription: the feed's subscription restricted to the channels of
\* the endpoint the connection belongs to.
conn_subscription(c) ==
    [ch \in (DOMAIN subscription) \cap channel_filter(c) |-> subscription[ch]]

(***************************************************************************)
(* Symbols.  The feed is configured with exchange (native) symbols; the    *)
(* replicas are keyed by the normalised symbol.                            *)
(***************************************************************************)
NativeSymbols == {"BTCUSD", "ETHUSD"}

exchange_symbol_to_std_symbol(s) ==
    CASE s = "BTCUSD" -> "BTC-USD"
      [] s = "ETHUSD" -> "ETH-USD"

StdSymbols == {exchange_symbol_to_std_symbol(s) : s \in NativeSymbols}

\* str.upper() and str.lower() on the texts that occur in order events.
upper(s) ==
    CASE s = "btcusd" -> "BTCUSD"
      [] s = "ethusd" -> "ETHUSD"
      [] OTHER -> s

lower(s) ==
    CASE s = "BUY" -> "buy"
      [] s = "SELL" -> "sell"
      [] OTHER -> s

(***************************************************************************)
(* Decimal(text): the value of a wire text, or a failure to parse.         *)
(* "1" and "1.0" are the same Decimal, "0" and "0.0" both compare equal to *)
(* 0, and "x" raises decimal.InvalidOperation.                             *)
(***************************************************************************)
DecimalTexts == {"0", "0.0", "1", "1.0", "2"}

IsDecimal(t) == t \in DecimalTexts

Decimal(t) ==
    CASE t = "0" -> 0
      [] t = "0.0" -> 0
      [] t = "1" -> 1
      [] t = "1.0" -> 1
      [] t = "2" -> 2

\* str(n) of the event ids that occur in trade frames.
str(n) ==
    CASE n = 7 -> "7"
      [] n = 8 -> "8"

\* ts / 1000.0, kept exact as whole seconds and the millisecond remainder.
timestamp_normalize(ts) == [sec |-> ts \div 1000, ms |-> ts % 1000]

(***************************************************************************)
(* Order-book replica: OrderBook(...) has two sides, each a mapping from   *)
(* price to size.  A symbol that was never reset has no entry in _l2_book. *)
(***************************************************************************)
EmptySide == [p \in {} |-> 0]

OrderBook == [bid |-> EmptySide, ask |-> EmptySide]

NoBook == [missing |-> TRUE]

\* delta=None of the book callback.
None == [none |-> TRUE]

\* SetLevel with the slip of keeping a level that is already there.
SetLevelKeepFirst(book, side, price, amount) ==
    [book EXCEPT ![side] =
        [p \in (DOMAIN book[side]) \cup {price} |->
            IF p \in DOMAIN book[side] THEN book[side][p] ELSE amount]]

\* book[side][price] = amount
SetLevel(book, side, price, amount) ==
    [book EXCEPT ![side] =
        [p \in (DOMAIN book[side]) \cup {price} |->
            IF p = price THEN amount ELSE book[side][p]]]

\* del book[side][price]
DelLevel(book, side, price) ==
    [book EXCEPT ![side] = [p \in (DOMAIN book[side]) \ {price} |-> book[side][p]]]

(***************************************************************************)
(* Callback values.  The book callback hands over the replica object       *)
(* itself (l2_book[symbol], by reference) together with the delta.         *)
(***************************************************************************)
BookEvent(pair, d) == [channel |-> L2_BOOK, symbol |-> pair, delta |-> d]

\* A handler's outcome: whether it raised, the callbacks it awaited in
\* order, the replicas and first-update flags it leaves, and the delta it
\* recorded (None when _book did not get to record one).
Outcome(r, ev, books, fr, d) ==
    [raised |-> r, emitted |-> ev, l2_book |-> books, fresh |-> fr, delta |-> d]

Returned(ev) == Outcome(FALSE, ev, l2_book, fresh, None)

Raised == Outcome(TRUE, <<>>, l2_book, fresh, None)

EmptyDelta == [bid |-> <<>>, ask |-> <<>>]

(***************************************************************************)
(* Gemini._book, lines 89-111.                                             *)
(***************************************************************************)
\* BookFiltered with the slip of testing only the symbols listed under the
\* book channel.
BookFilteredListedOnly(symbol) ==
    /\ DOMAIN subscription # {}
    /\ L2_BOOK \in DOMAIN subscription
    /\ symbol \notin subscription[L2_BOOK]

\* Line 93: the frame is discarded when the feed has a subscription that
\* does not list the frame's symbol under the book channel.
BookFiltered(symbol) ==
    /\ DOMAIN subscription # {}
    /\ \/ (L2_BOOK \in DOMAIN subscription /\ symbol \notin subscription[L2_BOOK])
       \/ L2_BOOK \notin DOMAIN subscription

\* ApplyEntry with the slip of storing a size of 0 like any other size.
ApplyEntryStoreZero(book, d, entry) ==
    IF Len(entry) < 3 \/ ~IsDecimal(entry[2]) \/ ~IsDecimal(entry[3])
    THEN [raised |-> TRUE, book |-> book, delta |-> d]
    ELSE LET side == IF entry[1] = "sell" THEN ASK ELSE BID
             price == Decimal(entry[2])
             amount == Decimal(entry[3])
         IN  [raised |-> FALSE,
              book |-> SetLevel(book, side, price, amount),
              delta |-> [d EXCEPT ![side] = Append(@, <<price, amount>>)]]

\* ApplyEntry with the slip of recording a removal whether or not the
\* level was there.
ApplyEntryRecordAbsent(book, d, entry) ==
    IF Len(entry) < 3 \/ ~IsDecimal(entry[2]) \/ ~IsDecimal(entry[3])
    THEN [raised |-> TRUE, book |-> book, delta |-> d]
    ELSE LET side == IF entry[1] = "sell" THEN ASK ELSE BID
             price == Decimal(entry[2])
             amount == Decimal(entry[3])
         IN  IF amount = 0
             THEN [raised |-> FALSE,
                   book |-> DelLevel(book, side, price),
                   delta |-> [d EXCEPT ![side] = Append(@, <<price, 0>>)]]
             ELSE [raised |-> FALSE,
                   book |-> SetLevel(book, side, price, amount),
                   delta |-> [d EXCEPT ![side] = Append(@, <<price, amount>>)]]

\* Lines 100-109 for one entry of msg['changes'], applied to the replica
\* `book` with the delta recorded so far.  entry[0..2] of the source are
\* entry[1..3] here.
ApplyEntry(book, d, entry) ==
    IF Len(entry) < 3 \/ ~IsDecimal(entry[2]) \/ ~IsDecimal(entry[3])
    THEN [raised |-> TRUE, book |-> book, delta |-> d]
    ELSE LET side == IF entry[1] = "sell" THEN ASK ELSE BID
             price == Decimal(entry[2])
             amount == Decimal(entry[3])
         IN  IF amount = 0
             THEN IF price \in DOMAIN book[side]
                  THEN [raised |-> FALSE,
                        book |-> DelLevel(book, side, price),
                        delta |-> [d EXCEPT ![side] = Append(@, <<price, 0>>)]]
                  ELSE [raised |-> FALSE, book |-> book, delta |-> d]
             ELSE [raised |-> FALSE,
                   book |-> SetLevel(book, side, price, amount),
                   delta |-> [d EXCEPT ![side] = Append(@, <<price, amount>>)]]

\* The loop of line 99 from entry i on; it stops at the first entry that
\* raises, keeping what the earlier entries did to the replica.
RECURSIVE ApplyChanges(_, _, _, _)
ApplyChanges(book, d, data, i) ==
    IF i > Len(data)
    THEN [raised |-> FALSE, book |-> book, delta |-> d]
    ELSE LET r == ApplyEntry(book, d, data[i])
         IN  IF r.raised THEN r ELSE ApplyChanges(r.book, r.delta, data, i + 1)

\* Forced with the slip of asking for a replica empty on both sides.
ForcedNoLevels(book) == DOMAIN book.bid = {} /\ DOMAIN book.ask = {}

\* forced = not len(self._l2_book[pair].book.bids), line 97
Forced(book) == DOMAIN book.bid = {}

\* EmittedDelta with the slip of also withholding a delta that has no entry.
EmittedDeltaNoneWhenEmpty(forced, d) == IF forced \/ d = EmptyDelta THEN None ELSE d

\* delta=delta if not forced else None, line 111
EmittedDelta(forced, d) == IF forced THEN None ELSE d

_book(msg) ==
    IF "symbol" \notin DOMAIN msg THEN Raised
    ELSE LET pair == exchange_symbol_to_std_symbol(msg.symbol) IN
    IF BookFiltered(msg.symbol) THEN Returned(<<>>)
    ELSE IF "changes" \notin DOMAIN msg THEN Raised
    ELSE IF l2_book[pair] = NoBook THEN Raised
    ELSE LET forced == Forced(l2_book[pair])
             r == ApplyChanges(l2_book[pair], EmptyDelta, msg.changes, 1)
             books == [l2_book EXCEPT ![pair] = r.book]
             fr == [fresh EXCEPT ![pair] = FALSE]
         IN  IF r.raised
             THEN Outcome(TRUE, <<>>, books, fr, None)
             ELSE Outcome(FALSE, <<BookEvent(pair, EmittedDelta(forced, r.delta))>>,
                          books, fr, r.delta)

(***************************************************************************)
(* Gemini._trade, lines 113-119.                                           *)
(***************************************************************************)
TradeKeys == {"symbol", "price", "side", "quantity", "timestamp", "event_id"}

\* _trade with the slip of starting the symbol's replica afresh on a trade.
_tradeClearsReplica(msg) ==
    IF ~(TradeKeys \subseteq DOMAIN msg) THEN Raised
    ELSE IF ~IsDecimal(msg.price) \/ ~IsDecimal(msg.quantity) THEN Raised
    ELSE Outcome(FALSE,
                 <<[channel |-> TRADES,
                    symbol |-> exchange_symbol_to_std_symbol(msg.symbol),
                    side |-> IF msg.side = "sell" THEN SELL ELSE BUY,
                    amount |-> Decimal(msg.quantity),
                    price |-> Decimal(msg.price),
                    timestamp |-> timestamp_normalize(msg.timestamp),
                    id |-> str(msg.event_id)]>>,
                 [l2_book EXCEPT ![exchange_symbol_to_std_symbol(msg.symbol)] = OrderBook],
                 fresh, None)

_trade(msg) ==
    IF ~(TradeKeys \subseteq DOMAIN msg) THEN Raised
    ELSE IF ~IsDecimal(msg.price) \/ ~IsDecimal(msg.quantity) THEN Raised
    ELSE Returned(<<[channel |-> TRADES,
                     symbol |-> exchange_symbol_to_std_symbol(msg.symbol),
                     side |-> IF msg.side = "sell" THEN SELL ELSE BUY,
                     amount |-> Decimal(msg.quantity),
                     price |-> Decimal(msg.price),
                     timestamp |-> timestamp_normalize(msg.timestamp),
                     id |-> str(msg.event_id)]>>)

(***************************************************************************)
(* Gemini._order, lines 121-167.                                           *)
(***************************************************************************)
\* OrderStatus with the slip of failing every status the table lacks.
OrderStatusTableOnly(type) ==
    IF type = "initial" \/ type = "accepted" THEN SUBMITTING
    ELSE IF type = "fill" THEN FILLED
    ELSE IF type = "booked" THEN OPEN
    ELSE IF type = "cancelled" THEN CANCELLED
    ELSE FAILED

\* Lines 141-152: the status of an order event of the given type.
OrderStatus(type) ==
    IF type = "initial" \/ type = "accepted" THEN SUBMITTING
    ELSE IF type = "fill" THEN FILLED
    ELSE IF type = "booked" THEN OPEN
    ELSE IF type = "rejected" THEN FAILED
    ELSE IF type = "cancelled" THEN CANCELLED
    ELSE type

OrderKeys == {"type", "symbol", "order_id", "side", "order_type", "price",
              "executed_amount", "remaining_amount", "timestampms"}

\* Whether _order gets through lines 141-166 without raising: every key it
\* subscripts is present and every Decimal(...) parses.
OrderWellFormed(msg) ==
    /\ OrderKeys \subseteq DOMAIN msg
    /\ IsDecimal(msg.price)
    /\ IsDecimal(msg.executed_amount)
    /\ IsDecimal(msg.remaining_amount)

\* Lines 154-166.
OrderInfo(msg) ==
    [channel |-> ORDER_INFO,
     symbol |-> exchange_symbol_to_std_symbol(upper(msg.symbol)),
     id |-> msg.order_id,
     side |-> IF lower(msg.side) = "buy" THEN BUY ELSE SELL,
     status |-> OrderStatus(msg.type),
     type |-> IF msg.order_type = "exchange limit" THEN LIMIT ELSE STOP_LIMIT,
     price |-> Decimal(msg.price),
     amount |-> Decimal(msg.executed_amount),
     remaining |-> Decimal(msg.remaining_amount),
     timestamp |-> timestamp_normalize(msg.timestampms)]

_order(msg) ==
    IF ~OrderWellFormed(msg) THEN Raised ELSE Returned(<<OrderInfo(msg)>>)

(***************************************************************************)
(* A consumer of the book callbacks, keeping a copy of its own per symbol: *)
(* delta = None replaces the copy with the replica handed over, any other  *)
(* delta is applied entry by entry, size 0 removing the level.             *)
(***************************************************************************)
NoConsumer == [detached |-> TRUE]

EmptyCopies == [s \in StdSymbols |-> OrderBook]

RECURSIVE ApplyDelta(_, _, _, _)
ApplyDelta(book, side, entries, i) ==
    IF i > Len(entries) THEN book
    ELSE ApplyDelta(IF entries[i][2] = 0
                    THEN DelLevel(book, side, entries[i][1])
                    ELSE SetLevel(book, side, entries[i][1], entries[i][2]),
                    side, entries, i + 1)

\* The copies after the callbacks of a handler outcome r.
Consumed(copies, r) ==
    IF copies = NoConsumer \/ r.emitted = <<>> THEN copies
    ELSE IF r.emitted[1].channel # L2_BOOK THEN copies
    ELSE LET ev == r.emitted[1] IN
         [copies EXCEPT ![ev.symbol] =
            IF ev.delta = None
            THEN r.l2_book[ev.symbol]
            ELSE ApplyDelta(ApplyDelta(@, BID, ev.delta.bid, 1), ASK, ev.delta.ask, 1)]

(***************************************************************************)
(* Gemini.message_handler, lines 169-190, on the frame json.loads returns. *)
(***************************************************************************)
IsList(frame) == frame.shape = "list"

AuctionTypes == {"auction_result", "auction_indicative", "auction_open"}

\* Lines 176-190: a frame that is not a list.
Dispatch(msg) ==
    IF "type" \notin DOMAIN msg THEN Returned(<<>>)
    ELSE IF msg.type = "l2_updates" THEN _book(msg)
    ELSE IF msg.type = "trade" THEN _trade(msg)
    ELSE IF msg.type = "heartbeat" THEN Returned(<<>>)
    ELSE IF msg.type = "subscription_ack" THEN Returned(<<>>)
    ELSE IF msg.type \in AuctionTypes THEN Returned(<<>>)
    ELSE Returned(<<>>)

\* One task reads each connection.  The handler of a list frame awaits the
\* callback of every entry (line 167, inside the loop of lines 172-175) and
\* may be suspended there: pending[conn] is then the frame, the entry the
\* loop goes on with and the callbacks awaited so far.  The handlers of the
\* other frames await as their last statement.
Idle == [idle |-> TRUE]

Busy(conn) == pending[conn] # Idle

\* One pass of the loop of lines 173-174, for entry i of a list frame, up
\* to the await of its callback; a list without entries returns at once.
\* An entry that raises ends the handler.
ListStep(frame, conn, i, ev) ==
    \E r \in {IF i > Len(frame.items) THEN Returned(<<>>) ELSE _order(frame.items[i])} :
    /\ l2_book' = r.l2_book
    /\ fresh' = r.fresh
    /\ raised' = r.raised
    /\ emitted' = r.emitted
    /\ delta' = r.delta
    /\ sent' = <<>>
    /\ call' = [op |-> "message_handler", frame |-> frame, conn |-> conn,
                entry |-> IF i > Len(frame.items) THEN 0 ELSE i,
                ev |-> ev \o r.emitted]
    /\ pending' = [pending EXCEPT ![conn] =
                        IF r.raised \/ i >= Len(frame.items)
                        THEN Idle
                        ELSE [frame |-> frame, i |-> i + 1, ev |-> ev \o r.emitted]]
    /\ consumer' = Consumed(consumer, r)
    /\ UNCHANGED <<subscription, credentials, clock, tokens, catalog>>

\* The handler is entered with a frame read from conn: a list frame runs
\* up to the await in its first entry, any other frame to its end.
message_handler(frame, conn) ==
    /\ ~Busy(conn)
    /\ IF IsList(frame)
       THEN ListStep(frame, conn, 1, <<>>)
       ELSE \E r \in {Dispatch(frame.fields)} :
            /\ l2_book' = r.l2_book
            /\ fresh' = r.fresh
            /\ raised' = r.raised
            /\ emitted' = r.emitted
            /\ delta' = r.delta
            /\ sent' = <<>>
            /\ call' = [op |-> "message_handler", frame |-> frame, conn |-> conn]
            /\ consumer' = Consumed(consumer, r)
            /\ UNCHANGED <<subscription, credentials, clock, tokens, catalog, pending>>

\* The handler of a list frame is resumed after the await and goes on with
\* the next entry.
next_entry(conn) ==
    /\ Busy(conn)
    /\ ListStep(pending[conn].frame, conn, pending[conn].i, pending[conn].ev)

(***************************************************************************)
(* Gemini.__reset (lines 67-69) and Gemini.subscribe (lines 202-208).      *)
(***************************************************************************)
\* __reset with the slip of creating only the replicas that are missing.
ResetMissingOnly(books, pairs) ==
    [s \in StdSymbols |->
        IF (\E p \in pairs : exchange_symbol_to_std_symbol(p) = s) /\ books[s] = NoBook
        THEN OrderBook ELSE books[s]]

\* Every pair gets a new, empty OrderBook.
__reset(books, pairs) ==
    [s \in StdSymbols |->
        IF \E p \in pairs : exchange_symbol_to_std_symbol(p) = s
        THEN OrderBook ELSE books[s]]

\* ConnSymbols with the slip of taking the symbols of the book channel only.
ConnBookSymbols(c) ==
    IF L2_BOOK \in DOMAIN conn_subscription(c) THEN conn_subscription(c)[L2_BOOK] ELSE {}

\* set(itertools.chain(*conn.subscription.values()))
ConnSymbols(c) ==
    UNION {conn_subscription(c)[ch] : ch \in DOMAIN conn_subscription(c)}

SubscribeMessage(symbols) ==
    [type |-> "subscribe", subscriptions |-> <<[name |-> "l2", symbols |-> symbols]>>]

subscribe(c) ==
    /\ ~Busy(c)
    /\ IF ORDER_INFO \in DOMAIN conn_subscription(c)
       THEN /\ UNCHANGED <<l2_book, fresh>>
            /\ sent' = <<>>
       ELSE LET symbols == ConnSymbols(c) IN
            /\ l2_book' = __reset(l2_book, symbols)
            /\ fresh' = [s \in StdSymbols |->
                            IF \E p \in symbols : exchange_symbol_to_std_symbol(p) = s
                            THEN TRUE ELSE fresh[s]]
            /\ sent' = <<SubscribeMessage(symbols)>>
    /\ raised' = FALSE
    /\ emitted' = <<>>
    /\ delta' = None
    /\ call' = [op |-> "subscribe", conn |-> c]
    /\ UNCHANGED <<subscription, credentials, clock, tokens, catalog, consumer, pending>>

(***************************************************************************)
(* Gemini.generate_token, lines 71-87.  A payload is a dict in insertion   *)
(* order: a sequence of <<key, value>> pairs with distinct keys, which is  *)
(* the order json.dumps writes.  The encodings and the keyed hash are      *)
(* injective on their arguments and are kept as terms over them.           *)
(***************************************************************************)
\* A feed configured without keys: key_id, key_secret and account_name are
\* all None.  A configured feed has [key_id, key_secret, account_name], the
\* account name "" when there is none.
NoCredentials == [unconfigured |-> TRUE]

\* The argument of generate_token: None, or a dict.
Dict(d) == [dict |-> d]

HasKey(d, k) == \E i \in 1..Len(d) : d[i][1] = k

\* d[k] = v: the value of a key that is there is replaced where it stands,
\* a new key goes last.
DictSet(d, k, v) ==
    IF HasKey(d, k)
    THEN [i \in 1..Len(d) |-> IF d[i][1] = k THEN <<k, v>> ELSE d[i]]
    ELSE Append(d, <<k, v>>)

DictGet(d, k) == LET i == CHOOSE i \in 1..Len(d) : d[i][1] = k IN d[i][2]

\* json.dumps(payload).encode('utf-8')
dumps(d) == [json |-> d]

b64encode(bytes) == [b64 |-> bytes]

\* hmac.new(key, msg, hashlib.sha384).hexdigest()
hexdigest(key, msg) == [hmac_sha384 |-> <<key, msg>>]

\* rest_endpoints[0].routes.authentication, line 41
authentication == "/v1/order/events"

\* Lines 72-78: the payload that is signed, for the argument `payload` and
\* the reading `now` of int(time.time() * 1000).
SignedPayload(payload, now) ==
    LET p0 == IF payload = None THEN <<>> ELSE payload.dict
        p1 == DictSet(p0, "request", authentication)
        p2 == DictSet(p1, "nonce", now)
    IN  IF credentials.account_name # ""
        THEN DictSet(p2, "account", credentials.account_name)
        ELSE p2

\* Line 81.
Signature(b64_payload) == hexdigest(credentials.key_secret, b64_payload)

\* Lines 80-87: the headers returned.
Headers(signed) ==
    LET b64_payload == b64encode(dumps(signed))
    IN  [payload |-> b64_payload,
         apikey |-> credentials.key_id,
         signature |-> Signature(b64_payload)]

\* One call of generate_token.  `tokens` keeps, for every call that
\* returned, the argument, the credentials, the nonce written into the
\* payload and the headers.  None.encode raises when no secret is
\* configured.
generate_token(payload) ==
    /\ Len(tokens) < MaxTokens
    /\ IF credentials = NoCredentials
       THEN /\ raised' = TRUE
            /\ UNCHANGED tokens
       ELSE LET signed == SignedPayload(payload, clock) IN
            /\ raised' = FALSE
            /\ tokens' = Append(tokens, [payload |-> payload,
                                         credentials |-> credentials,
                                         nonce |-> DictGet(signed, "nonce"),
                                         headers |-> Headers(signed)])
    /\ emitted' = <<>>
    /\ delta' = None
    /\ sent' = <<>>
    /\ call' = [op |-> "generate_token", payload |-> payload]
    /\ UNCHANGED <<subscription, l2_book, fresh, credentials, clock, catalog, consumer, pending>>

\* time.time() moves on by a millisecond.
Tick ==
    /\ clock < MaxClock
    /\ clock' = clock + 1
    /\ UNCHANGED <<subscription, l2_book, fresh, call, raised, emitted, delta, sent,
                   credentials, tokens, catalog, consumer, pending>>

(***************************************************************************)
(* Gemini._parse_symbol_data, lines 53-65.                                 *)
(***************************************************************************)
NoCatalog == [unparsed |-> TRUE]

\* Symbol(base, quote) of cryptofeed.symbols: a spot instrument, whose
\* normalised name is base-quote.
Symbol(base, quote) ==
    [normalized |-> CASE base = "BTC" /\ quote = "USD" -> "BTC-USD"
                      [] base = "ETH" /\ quote = "USD" -> "ETH-USD"
                      [] base = "ETH" /\ quote = "BTC" -> "ETH-BTC",
     type |-> "spot"]

EmptyMap == [k \in {} |-> k]

\* m[k] = v
MapSet(m, k, v) == [x \in (DOMAIN m) \cup {k} |-> IF x = k THEN v ELSE m[x]]

\* ret and info before the loop.  info is a defaultdict(dict): reading
\* info['tick_size'] or info['instrument_type'] gives {} until a key is set.
EmptyCatalog ==
    [raised |-> FALSE, ret |-> EmptyMap,
     info |-> [tick_size |-> EmptyMap, instrument_type |-> EmptyMap]]

\* A KeyError leaves the method: nothing is returned.
CatalogRaised == [EmptyCatalog EXCEPT !.raised = TRUE]

\* Skipped with the slip of keeping only the instruments that are open.
SkippedUnlessOpen(symbol) == symbol.status # "open"

\* Line 58: the instrument is passed over.
Skipped(symbol) == symbol.status = "closed"

\* The loop of line 57 from descriptor i on, in the order the keys are
\* subscripted: status; base_currency and quote_currency; symbol; tick_size.
RECURSIVE ParseSymbols(_, _, _)
ParseSymbols(data, i, acc) ==
    IF i > Len(data) THEN acc
    ELSE LET symbol == data[i] IN
        IF "status" \notin DOMAIN symbol THEN CatalogRaised
        ELSE IF Skipped(symbol) THEN ParseSymbols(data, i + 1, acc)
        ELSE IF ~({"base_currency", "quote_currency", "symbol", "tick_size"}
                        \subseteq DOMAIN symbol)
        THEN CatalogRaised
        ELSE LET s == Symbol(symbol.base_currency, symbol.quote_currency) IN
             ParseSymbols(data, i + 1,
                [acc EXCEPT
                    !.ret = MapSet(@, s.normalized, symbol.symbol),
                    !.info.tick_size = MapSet(@, s.normalized, symbol.tick_size),
                    !.info.instrument_type = MapSet(@, s.normalized, s.type)])

\* One call of the class method: `catalog` keeps the list it was given and
\* what it returned, or that it raised.
_parse_symbol_data(data) ==
    \E r \in {ParseSymbols(data, 1, EmptyCatalog)} :
    /\ catalog' = [data |-> data, raised |-> r.raised, ret |-> r.ret, info |-> r.info]
    /\ raised' = r.raised
    /\ emitted' = <<>>
    /\ delta' = None
    /\ sent' = <<>>
    /\ call' = [op |-> "_parse_symbol_data"]
    /\ UNCHANGED <<subscription, l2_book, fresh, credentials, clock, tokens, consumer, pending>>

(***************************************************************************)
(* Inbound frames.                                                         *)
(***************************************************************************)
Object(fields) == [shape |-> "object", fields |-> fields]

List(items) == [shape |-> "list", items |-> items]

SeqsUpTo(S, n) == UNION {[1..k -> S] : k \in 0..n}

BookFrame(symbol, changes) ==
    Object([type |-> "l2_updates", symbol |-> symbol, changes |-> changes])

BookFrames(symbols, entries) ==
    {BookFrame(s, c) : s \in symbols, c \in SeqsUpTo(entries, MaxChanges)}

TradeFrame(symbol, side, price) ==
    Object([type |-> "trade", symbol |-> symbol, price |-> price, side |-> side,
            quantity |-> "1", timestamp |-> 1547742989, event_id |-> 7])

OrderEvent(type, side, order_type) ==
    [type |-> type, order_id |-> "109535951", symbol |-> "btcusd", side |-> side,
     order_type |-> order_type, price |-> "2", executed_amount |-> "0.0",
     remaining_amount |-> "1", timestampms |-> 1547742989]

\* An order event without its discriminator.
Untyped ==
    [order_id |-> "109535951", symbol |-> "btcusd", side |-> "buy",
     order_type |-> "exchange limit", price |-> "2", executed_amount |-> "0.0",
     remaining_amount |-> "1", timestampms |-> 1547742989]

\* Frames of the other kinds the handler tells apart.
OtherFrames ==
    {Object([type |-> t]) : t \in {"heartbeat", "subscription_ack", "auction_open",
                                   "auction_result", "auction_indicative", "candles"}}
    \cup {Object([result |-> "error", reason |-> "InvalidJson"]), Object(Untyped)}

\* The frames of the general specification: both symbols, one price level
\* per side.
SmallEntries == {"buy", "sell"} \X {"1"} \X {"0", "1"}

SmallOrderEvents ==
    {OrderEvent("accepted", "buy", "exchange limit"),
     OrderEvent("fill", "buy", "exchange limit"),
     Untyped}

\* The frames read from the market-data connection.
Frames ==
    BookFrames(NativeSymbols, SmallEntries)
    \cup {TradeFrame("BTCUSD", "sell", "1.0"), TradeFrame("ETHUSD", "buy", "2")}
    \cup OtherFrames

\* The frames read from the order-events connection: single events, and
\* lists without an entry, of two events, and with an untyped first entry.
SmallOrderFrames ==
    {Object(e) : e \in SmallOrderEvents}
    \cup {List(<<>>),
          List(<<OrderEvent("accepted", "buy", "exchange limit"),
                 OrderEvent("fill", "buy", "exchange limit")>>),
          List(<<Untyped, OrderEvent("accepted", "buy", "exchange limit")>>)}

\* The subscriptions a feed is built with: any set of channels; the book
\* channel with no symbol, one symbol or both, the trade and order channels
\* with one symbol each.
SymbolChoices(ch) ==
    CASE ch = L2_BOOK -> {{}, {"BTCUSD"}, {"BTCUSD", "ETHUSD"}}
      [] ch = TRADES -> {{"ETHUSD"}}
      [] ch = ORDER_INFO -> {{"BTCUSD"}}

Subscriptions ==
    UNION {{sub \in [chs -> SUBSET NativeSymbols] :
                \A ch \in chs : sub[ch] \in SymbolChoices(ch)} :
           chs \in SUBSET websocket_channels}

(***************************************************************************)
(* The adapter after construction: no replica yet, nothing emitted.        *)
(***************************************************************************)
Constructed ==
    /\ l2_book = [s \in StdSymbols |-> NoBook]
    /\ fresh = [s \in StdSymbols |-> FALSE]
    /\ call = [op |-> "init"]
    /\ raised = FALSE
    /\ emitted = <<>>
    /\ delta = None
    /\ sent = <<>>
    /\ clock = 0
    /\ tokens = <<>>
    /\ catalog = NoCatalog
    /\ pending = [c \in Conns |-> Idle]

Init ==
    /\ subscription \in Subscriptions
    /\ credentials = NoCredentials
    /\ consumer = NoConsumer
    /\ Constructed

Next ==
    \/ \E c \in Conns : subscribe(c)
    \/ \E frame \in Frames : message_handler(frame, "marketdata")
    \/ \E frame \in SmallOrderFrames : message_handler(frame, "order_events")
    \/ \E c \in Conns : next_entry(c)

Spec == Init /\ [][Next]_vars

(***************************************************************************)
(* Book specification: one subscribed symbol, two bid levels and one ask   *)
(* level, amounts that overwrite and remove, price and amount texts that   *)
(* differ in spelling but not in value, and an amount that is no number.   *)
(***************************************************************************)
RichEntries ==
    {<<"buy", "1", "1">>, <<"buy", "1.0", "2">>, <<"buy", "1", "0.0">>,
     <<"buy", "2", "1">>, <<"buy", "2", "0">>,
     <<"sell", "1", "1">>, <<"sell", "1.0", "0">>, <<"sell", "2", "x">>}

RichBookFrames == BookFrames({"BTCUSD"}, RichEntries)

InitBook ==
    /\ subscription = [ch \in {L2_BOOK} |-> {"BTCUSD"}]
    /\ credentials = NoCredentials
    /\ consumer = NoConsumer
    /\ Constructed

NextBook ==
    \/ subscribe("marketdata")
    \/ \E frame \in RichBookFrames : message_handler(frame, "marketdata")

SpecBook == InitBook /\ [][NextBook]_vars

(***************************************************************************)
(* Order specification: the order-events connection, with every native     *)
(* status of the table, one that is not in it, and events that lack a key. *)
(***************************************************************************)
NativeStatuses ==
    {"initial", "accepted", "fill", "booked", "rejected", "cancelled", "closed"}

\* The event of the docstring of _order: no executed_amount, no
\* remaining_amount.
Docstring ==
    [type |-> "accepted", order_id |-> "109535951", symbol |-> "btcusd",
     side |-> "buy", order_type |-> "exchange limit", original_amount |-> "1",
     price |-> "2", timestampms |-> 1547742989]

RichOrderEvents ==
    {OrderEvent(t, "buy", "exchange limit") : t \in NativeStatuses}
    \cup {OrderEvent("fill", "SELL", "exchange stop limit"), Untyped, Docstring}

OrderFrames ==
    {Object(e) : e \in RichOrderEvents}
    \cup {List(l) : l \in SeqsUpTo(RichOrderEvents, MaxBatch)}
    \cup {Object([type |-> t]) : t \in {"heartbeat", "subscription_ack"}}

InitOrders ==
    /\ subscription = [ch \in {ORDER_INFO} |-> {"BTCUSD"}]
    /\ credentials = NoCredentials
    /\ consumer = NoConsumer
    /\ Constructed

NextOrders ==
    \/ subscribe("order_events")
    \/ \E frame \in OrderFrames : message_handler(frame, "order_events")
    \/ next_entry("order_events")

SpecOrders == InitOrders /\ [][NextOrders]_vars

(***************************************************************************)
(* Properties.  `call` is the operation that produced the current state;   *)
(* in an action formula call' is the operation the step performs and the   *)
(* unprimed variables are the state it was entered in.                     *)
(***************************************************************************)
Handled == call.op = "message_handler"

Subscribed == call.op = "subscribe"

\* The last operation handled a book-update frame naming native symbol sym.
BookFrameFor(sym) ==
    /\ Handled
    /\ call.frame.shape = "object"
    /\ "type" \in DOMAIN call.frame.fields
    /\ call.frame.fields.type = "l2_updates"
    /\ "symbol" \in DOMAIN call.frame.fields
    /\ call.frame.fields.symbol = sym

\* The last operation emitted exactly one book callback, for sym.
BookEmittedFor(sym) ==
    /\ BookFrameFor(sym)
    /\ Len(emitted) = 1
    /\ emitted[1].channel = L2_BOOK
    /\ emitted[1].symbol = exchange_symbol_to_std_symbol(sym)

Std(sym) == exchange_symbol_to_std_symbol(sym)

Levels(book) == Cardinality(DOMAIN book.bid) + Cardinality(DOMAIN book.ask)

\* C1 as stated: after a symbol is (re)subscribed the first book update
\* handled for it is emitted with delta = none, and every later one, until
\* the next resubscribe, with a delta that is not none.
C1_FirstNoneThenDelta ==
    [][\A sym \in NativeSymbols :
         BookEmittedFor(sym)' =>
            IF fresh[Std(sym)] THEN emitted'[1].delta = None
                               ELSE emitted'[1].delta # None]_vars

\* C1 as amended: the first book update handled after a (re)subscribe is
\* emitted with delta = none; a later one is emitted with a delta that is
\* not none when the bid side of the replica held a level as the frame was
\* entered, and with delta = none when it held no level.
C1_FirstNoneThenDeltaIfBids ==
    [][\A sym \in NativeSymbols :
         BookEmittedFor(sym)' =>
            /\ fresh[Std(sym)] => emitted'[1].delta = None
            /\ (~fresh[Std(sym)] /\ DOMAIN l2_book[Std(sym)].bid # {})
                    => emitted'[1].delta # None
            /\ (~fresh[Std(sym)] /\ DOMAIN l2_book[Std(sym)].bid = {})
                    => emitted'[1].delta = None]_vars

\* A later update of a symbol was emitted with a delta, which leaves the
\* bid side empty: the update after it is a later update entered with no bid.
C1_Witness ==
    \E sym \in NativeSymbols :
        /\ BookEmittedFor(sym)
        /\ emitted[1].delta # None
        /\ DOMAIN l2_book[Std(sym)].bid = {}

\* C2: no replica stores a price level of size 0, on either side of any
\* symbol.
C2_NoZeroLevel ==
    \A s \in StdSymbols :
        l2_book[s] # NoBook =>
            \A side \in {BID, ASK} :
                \A p \in DOMAIN l2_book[s][side] : l2_book[s][side][p] # 0

\* An update of amount 0 has just removed a level while another level of
\* the same replica stays.
C2_Witness ==
    \E sym \in NativeSymbols :
        /\ BookEmittedFor(sym)
        /\ \E i \in 1..Len(call.frame.fields.changes) :
                Decimal(call.frame.fields.changes[i][3]) = 0
        /\ delta # None
        /\ \E side \in {BID, ASK} : \E i \in 1..Len(delta[side]) : delta[side][i][2] = 0
        /\ Levels(l2_book[Std(sym)]) > 0

\* No subscriber wants book data for sym: the book channel is not in the
\* subscription, or sym is not listed under it.
NoBookInterest(sym) ==
    \/ L2_BOOK \notin DOMAIN subscription
    \/ sym \notin subscription[L2_BOOK]

\* C3: a book-update frame for a symbol nobody wants book data for leaves
\* every replica as it was and emits no callback.
C3_UnwantedBookFrameIgnored ==
    [][\A sym \in NativeSymbols :
         (BookFrameFor(sym)' /\ NoBookInterest(sym)) =>
            /\ l2_book' = l2_book
            /\ emitted' = <<>>]_vars

\* A book frame with changes arrived for a symbol that has a replica but is
\* subscribed for trades only, and the handler returned.
C3_Witness ==
    \E sym \in NativeSymbols :
        /\ BookFrameFor(sym)
        /\ NoBookInterest(sym)
        /\ call.frame.fields.changes # <<>>
        /\ l2_book[Std(sym)] # NoBook
        /\ ~raised
        /\ emitted = <<>>

\* The frame of the step is a book update of exactly one change, of size 0.
SingleRemoval(frame) ==
    /\ frame.shape = "object"
    /\ "type" \in DOMAIN frame.fields
    /\ frame.fields.type = "l2_updates"
    /\ Len(frame.fields.changes) = 1
    /\ frame.fields.changes[1][3] \in {"0", "0.0"}

SideOf(entry) == IF entry[1] = "sell" THEN ASK ELSE BID

OtherSide(side) == IF side = BID THEN ASK ELSE BID

\* C4: a change of size 0 for a level that is present removes that level and
\* records exactly the entry (price, 0) in that side's delta; for a level
\* that is absent it leaves the replica as it was and records no entry.
C4_ZeroSizeRemoval ==
    [][\A sym \in NativeSymbols :
         (BookEmittedFor(sym)' /\ SingleRemoval(call'.frame)) =>
            LET entry == call'.frame.fields.changes[1]
                side == SideOf(entry)
                price == IF entry[2] = "2" THEN 2 ELSE 1
                before == l2_book[Std(sym)]
                after == l2_book'[Std(sym)]
            IN  IF price \in DOMAIN before[side]
                THEN /\ DOMAIN after[side] = (DOMAIN before[side]) \ {price}
                     /\ \A p \in DOMAIN after[side] : after[side][p] = before[side][p]
                     /\ after[OtherSide(side)] = before[OtherSide(side)]
                     /\ delta'[side] = <<<<price, 0>>>>
                     /\ delta'[OtherSide(side)] = <<>>
                ELSE /\ after = before
                     /\ delta' = [bid |-> <<>>, ask |-> <<>>]]_vars

\* A single change of size 0 has removed an ask level, and the removal is
\* recorded, while the bid side is empty.
C4_Witness ==
    \E sym \in NativeSymbols :
        /\ BookEmittedFor(sym)
        /\ SingleRemoval(call.frame)
        /\ delta # None
        /\ delta.ask = <<<<1, 0>>>>
        /\ l2_book[Std(sym)] = OrderBook

PriceValues == {Decimal(t) : t \in DecimalTexts} \ {0}

\* The changes of a frame that are for (side, price), by position.
EntriesFor(changes, side, price) ==
    {i \in 1..Len(changes) : SideOf(changes[i]) = side /\ Decimal(changes[i][2]) = price}

Last(S) == CHOOSE i \in S : \A j \in S : j <= i

\* C5: the first book frame handled for a freshly subscribed symbol leaves
\* in the replica exactly the levels whose last entry in the frame has a
\* size other than 0, with that size, and is emitted with delta = none; a
\* frame that removes one bid level that is present leaves the replica with
\* one entry fewer and is emitted with exactly that removal as its delta.
C5_SnapshotThenRemoval ==
    [][\A sym \in NativeSymbols :
         BookEmittedFor(sym)' =>
            LET changes == call'.frame.fields.changes
                before == l2_book[Std(sym)]
                after == l2_book'[Std(sym)]
            IN  /\ fresh[Std(sym)] =>
                    /\ emitted'[1].delta = None
                    /\ \A side \in {BID, ASK} :
                        /\ DOMAIN after[side] \subseteq PriceValues
                        /\ \A p \in PriceValues :
                            LET idx == EntriesFor(changes, side, p) IN
                            IF idx = {} \/ Decimal(changes[Last(idx)][3]) = 0
                            THEN p \notin DOMAIN after[side]
                            ELSE /\ p \in DOMAIN after[side]
                                 /\ after[side][p] = Decimal(changes[Last(idx)][3])
                /\ ( /\ SingleRemoval(call'.frame)
                     /\ SideOf(changes[1]) = BID
                     /\ Decimal(changes[1][2]) \in DOMAIN before.bid ) =>
                    /\ Levels(after) = Levels(before) - 1
                    /\ emitted'[1].delta =
                          [bid |-> <<<<Decimal(changes[1][2]), 0>>>>, ask |-> <<>>]]_vars

\* A frame has removed bid level 1 and nothing else, and the replica keeps
\* its other bid level and its ask level.
C5_Witness ==
    \E sym \in NativeSymbols :
        /\ BookEmittedFor(sym)
        /\ SingleRemoval(call.frame)
        /\ emitted[1].delta = [bid |-> <<<<1, 0>>>>, ask |-> <<>>]
        /\ DOMAIN l2_book[Std(sym)].bid = {2}
        /\ DOMAIN l2_book[Std(sym)].ask = {1}

\* C6: after subscribe on a connection that carries a book subscription
\* the replica of every symbol of that connection's subscription is empty
\* on both sides, and no update has been handled for it.
C6_SubscribeEmptiesReplicas ==
    (Subscribed /\ L2_BOOK \in DOMAIN conn_subscription(call.conn)) =>
        \A sym \in ConnSymbols(call.conn) :
            /\ l2_book[Std(sym)] # NoBook
            /\ DOMAIN l2_book[Std(sym)].bid = {}
            /\ DOMAIN l2_book[Std(sym)].ask = {}
            /\ fresh[Std(sym)]

\* subscribe has run on the market-data connection of a feed subscribed to
\* the book of both symbols, and has sent its subscribe message.
C6_Witness ==
    /\ Subscribed
    /\ call.conn = "marketdata"
    /\ L2_BOOK \in DOMAIN subscription
    /\ subscription[L2_BOOK] = NativeSymbols
    /\ sent = <<SubscribeMessage(NativeSymbols)>>
    /\ \A s \in StdSymbols : l2_book[s] = OrderBook

\* An object that carries an order event: every field of an order event, and
\* a type that is none of the handler's own frame types.
IsOrderEvent(msg) ==
    /\ OrderWellFormed(msg)
    /\ msg.type \notin {"l2_updates", "trade", "heartbeat", "subscription_ack"}
                       \cup AuctionTypes

IsTradeFrame(frame) ==
    /\ frame.shape = "object"
    /\ "type" \in DOMAIN frame.fields
    /\ frame.fields.type = "trade"
    /\ TradeKeys \subseteq DOMAIN frame.fields

\* The OrderInfo values of a sequence of order events, in its order.
OrderInfos(events) == [i \in 1..Len(events) |-> OrderInfo(events[i])]

\* The last operation was a step of the handler of a list frame.
ListHandled == Handled /\ IsList(call.frame)

\* That step ended the handler: it was the last entry's, or it raised.
ListEnded == ListHandled /\ ~Busy(call.conn)

\* C7: the callbacks a frame emits are those of the frame, in its order, and
\* none is dropped: a book frame that passes the interest filter emits its
\* book callback, a trade frame its Trade, an order frame (one event, or a
\* list of events) the OrderInfo of each of its order events in list order.
\* The handler of a connection runs frame by frame and entry by entry, so
\* what it emits for one precedes what it emits for the next.
C7_EventsInArrivalOrder ==
    Handled =>
        LET frame == call.frame IN
        /\ ListEnded =>
                call.ev = OrderInfos(SelectSeq(frame.items, IsOrderEvent))
        /\ (frame.shape = "object" /\ IsOrderEvent(frame.fields)) =>
                emitted = <<OrderInfo(frame.fields)>>
        /\ IsTradeFrame(frame) =>
                (Len(emitted) = 1 /\ emitted[1].channel = TRADES)
        /\ \A sym \in NativeSymbols :
                (BookFrameFor(sym) /\ ~NoBookInterest(sym) /\ l2_book[Std(sym)] # NoBook) =>
                    BookEmittedFor(sym)

\* C8: an order frame that is a list of n order events emits n OrderInfo
\* values, one per element in list order; an order frame that is a single
\* order event emits exactly one OrderInfo.
C8_OneOrderInfoPerEvent ==
    Handled =>
        LET frame == call.frame IN
        /\ (ListEnded /\ \A i \in 1..Len(frame.items) : IsOrderEvent(frame.items[i])) =>
                /\ Len(call.ev) = Len(frame.items)
                /\ \A i \in 1..Len(call.ev) : call.ev[i] = OrderInfo(frame.items[i])
        /\ (frame.shape = "object" /\ IsOrderEvent(frame.fields)) =>
                /\ Len(emitted) = 1
                /\ emitted[1] = OrderInfo(frame.fields)

HasType(msg) == "type" \in DOMAIN msg

\* The status table of the order events.
StatusTable(type) ==
    CASE type \in {"initial", "accepted"} -> SUBMITTING
      [] type = "fill" -> FILLED
      [] type = "booked" -> OPEN
      [] type = "rejected" -> FAILED
      [] type = "cancelled" -> CANCELLED
      [] OTHER -> type

\* C9: every order event handed to the order handler with all its fields is
\* emitted, without an error, with the status the table gives its native
\* status, and with the native status itself when the table has none: the
\* handler of a list of such events has emitted one OrderInfo for every
\* entry up to the one it is at, and ends with the last entry.
C9_StatusMappingTotal ==
    ( /\ ListHandled
      /\ \A i \in 1..Len(call.frame.items) : OrderWellFormed(call.frame.items[i]) ) =>
        /\ ~raised
        /\ Len(call.ev) = call.entry
        /\ ListEnded <=> call.entry = Len(call.frame.items)
        /\ call.entry > 0 => emitted = <<call.ev[call.entry]>>
        /\ \A i \in 1..Len(call.ev) :
            /\ call.ev[i].channel = ORDER_INFO
            /\ call.ev[i].status = StatusTable(call.frame.items[i].type)

\* A list of an event whose status the table lacks and a booked event has
\* been emitted as two OrderInfo values, the first with the native status.
C9_Witness ==
    /\ ListEnded
    /\ Len(call.frame.items) = 2
    /\ \A i \in 1..2 : HasType(call.frame.items[i])
    /\ call.frame.items[1].type = "closed"
    /\ call.frame.items[2].type = "booked"
    /\ Len(call.ev) = 2
    /\ call.ev[1].status = "closed"
    /\ call.ev[2].status = OPEN

\* The frame is an object without a type, or a list with such an element.
LacksType(frame) ==
    IF frame.shape = "list"
    THEN \E i \in 1..Len(frame.items) : ~HasType(frame.items[i])
    ELSE ~HasType(frame.fields)

\* C10: a frame without a type, be it the whole frame or an element of a
\* list, raises no error, emits no callback and changes no replica, and the
\* frames after it (the other elements of the list) are handled as usual:
\* when the handler of the list ends it has emitted the OrderInfo of every
\* element that has a type.
C10_UntypedFrameIgnored ==
    [][(Handled' /\ LacksType(call'.frame)) =>
            /\ ~raised'
            /\ l2_book' = l2_book
            /\ IF IsList(call'.frame)
               THEN ListEnded' =>
                        call'.ev = OrderInfos(SelectSeq(call'.frame.items, HasType))
               ELSE emitted' = <<>>]_vars

(***************************************************************************)
(* Malformed frames.                                                       *)
(***************************************************************************)
\* A book-update object without a field _book reads, or with a change
\* whose price or amount text is no decimal.
MalformedBook(msg) ==
    /\ msg.type = "l2_updates"
    /\ \/ "symbol" \notin DOMAIN msg
       \/ "changes" \notin DOMAIN msg
       \/ \E i \in 1..Len(msg.changes) :
               \/ Len(msg.changes[i]) < 3
               \/ ~IsDecimal(msg.changes[i][2])
               \/ ~IsDecimal(msg.changes[i][3])

\* A trade object without a field _trade reads, or with a price or a
\* quantity text that is no decimal.
MalformedTrade(msg) ==
    /\ msg.type = "trade"
    /\ \/ ~(TradeKeys \subseteq DOMAIN msg)
       \/ ~IsDecimal(msg.price)
       \/ ~IsDecimal(msg.quantity)

\* The operation c handled a frame of a recognised type that lacks a
\* required field or carries a price or amount that cannot be parsed: a
\* book update, a trade, or a typed order event of that kind as the entry
\* of a list.
Malformed(c) ==
    IF IsList(c.frame)
    THEN /\ c.entry > 0
         /\ HasType(c.frame.items[c.entry])
         /\ ~OrderWellFormed(c.frame.items[c.entry])
    ELSE /\ HasType(c.frame.fields)
         /\ MalformedBook(c.frame.fields) \/ MalformedTrade(c.frame.fields)

\* C11: a frame of a recognised type that lacks a required field, or whose
\* price or amount cannot be parsed as a decimal, is dropped: handling it
\* raises no error out of the handler, emits no callback and leaves every
\* replica as it was.
C11_MalformedFrameDropped ==
    [][(Handled' /\ Malformed(call')) =>
            /\ ~raised'
            /\ emitted' = <<>>
            /\ l2_book' = l2_book]_vars

\* C12: a book update is emitted with delta = none exactly when the bid side
\* of the symbol's replica held no level as the frame was entered, whatever
\* the ask side held and whatever the frame carries, and with the delta the
\* handler recorded otherwise.
C12_NoneIffNoBidAtEntry ==
    [][\A sym \in NativeSymbols :
         BookEmittedFor(sym)' =>
            /\ emitted'[1].delta = None <=> DOMAIN l2_book[Std(sym)].bid = {}
            /\ DOMAIN l2_book[Std(sym)].bid # {} => emitted'[1].delta = delta']_vars

\* A frame that changed nothing was emitted with delta = none although the
\* ask side holds a level: the replica was entered with asks and no bid.
C12_Witness ==
    \E sym \in NativeSymbols :
        /\ BookEmittedFor(sym)
        /\ call.frame.fields.changes # <<>>
        /\ emitted[1].delta = None
        /\ delta = EmptyDelta
        /\ DOMAIN l2_book[Std(sym)].ask # {}
        /\ DOMAIN l2_book[Std(sym)].bid = {}

(***************************************************************************)
(* Signing specification: a feed with or without keys and account name,    *)
(* generate_token called with no payload and with payloads of one and two  *)
(* keys, one of which names a nonce of its own, while the clock moves on   *)
(* or stays within the same millisecond.                                   *)
(***************************************************************************)
CredentialChoices ==
    {NoCredentials,
     [key_id |-> "key-id", key_secret |-> "secret", account_name |-> ""],
     [key_id |-> "key-id", key_secret |-> "secret", account_name |-> "primary"]}

Payloads ==
    {None, Dict(<<>>), Dict(<< <<"a", 1>> >>),
     Dict(<< <<"a", 1>>, <<"b", 2>> >>), Dict(<< <<"b", 2>>, <<"a", 1>> >>),
     Dict(<< <<"nonce", 0>>, <<"a", 1>> >>)}

InitAuth ==
    /\ subscription = [ch \in {ORDER_INFO} |-> {"BTCUSD"}]
    /\ credentials \in CredentialChoices
    /\ consumer = NoConsumer
    /\ Constructed

NextAuth ==
    \/ Tick
    \/ \E payload \in Payloads : generate_token(payload)

SpecAuth == InitAuth /\ [][NextAuth]_vars

\* C13: the nonces of successive generate_token calls on one adapter are
\* strictly increasing: a later call's nonce is greater than the nonce of
\* every earlier call.
C13_NoncesStrictlyIncreasing ==
    \A i, j \in 1..Len(tokens) : i < j => tokens[i].nonce < tokens[j].nonce

\* What a payload argument holds: its keys and their values, whatever the
\* order they were inserted in; None holds nothing.
Content(payload) ==
    IF payload = None THEN [k \in {} |-> 0]
    ELSE [k \in {payload.dict[i][1] : i \in 1..Len(payload.dict)} |->
            DictGet(payload.dict, k)]

\* C14: two generate_token calls with the same payload content, the same
\* credentials and the same nonce return the same headers: payload, API key
\* and signature.
C14_SigningDeterministic ==
    \A i, j \in 1..Len(tokens) :
        (/\ Content(tokens[i].payload) = Content(tokens[j].payload)
         /\ tokens[i].credentials = tokens[j].credentials
         /\ tokens[i].nonce = tokens[j].nonce)
            => tokens[i].headers = tokens[j].headers

(***************************************************************************)
(* Catalog specification: lists of up to MaxInstruments descriptors, each  *)
(* naming another instrument; a descriptor is open, cancel-only or closed, *)
(* and may lack its status, its tick size or its base currency.            *)
(***************************************************************************)
Descriptor(symbol, base, quote, status) ==
    [symbol |-> symbol, base_currency |-> base, quote_currency |-> quote,
     tick_size |-> "0.01", status |-> status]

Without(d, key) == [k \in (DOMAIN d) \ {key} |-> d[k]]

Instruments == {<<"BTCUSD", "BTC", "USD">>, <<"ETHUSD", "ETH", "USD">>,
                <<"ETHBTC", "ETH", "BTC">>}

Descriptors ==
    UNION {{Descriptor(n[1], n[2], n[3], "open"),
            Descriptor(n[1], n[2], n[3], "cancel_only"),
            Descriptor(n[1], n[2], n[3], "closed"),
            Without(Descriptor(n[1], n[2], n[3], "open"), "status"),
            Without(Descriptor(n[1], n[2], n[3], "open"), "tick_size"),
            Without(Descriptor(n[1], n[2], n[3], "closed"), "base_currency")} :
           n \in Instruments}

InstrumentLists ==
    {data \in SeqsUpTo(Descriptors, MaxInstruments) :
        \A i, j \in 1..Len(data) : i # j => data[i].symbol # data[j].symbol}

InitSymbols ==
    /\ subscription = [ch \in {L2_BOOK} |-> {"BTCUSD"}]
    /\ credentials = NoCredentials
    /\ consumer = NoConsumer
    /\ Constructed

NextSymbols == \E data \in InstrumentLists : _parse_symbol_data(data)

SpecSymbols == InitSymbols /\ [][NextSymbols]_vars

Parsed == call.op = "_parse_symbol_data"

DescriptorKeys == {"symbol", "base_currency", "quote_currency", "tick_size", "status"}

WellFormed(d) == DescriptorKeys \subseteq DOMAIN d

Canonical(d) == Symbol(d.base_currency, d.quote_currency).normalized

\* The canonical symbol is a key of the mapping, to the descriptor's native
\* symbol, and a key of the tick-size and of the instrument-type metadata.
InCatalog(d) ==
    /\ Canonical(d) \in DOMAIN catalog.ret
    /\ catalog.ret[Canonical(d)] = d.symbol
    /\ Canonical(d) \in DOMAIN catalog.info.tick_size
    /\ catalog.info.tick_size[Canonical(d)] = d.tick_size
    /\ Canonical(d) \in DOMAIN catalog.info.instrument_type

\* Neither the native symbol nor the canonical symbol of the descriptor is
\* anywhere in the catalog.
NowhereInCatalog(d) ==
    /\ \A k \in DOMAIN catalog.ret : catalog.ret[k] # d.symbol
    /\ {"base_currency", "quote_currency"} \subseteq DOMAIN d =>
            /\ Canonical(d) \notin DOMAIN catalog.ret
            /\ Canonical(d) \notin DOMAIN catalog.info.tick_size
            /\ Canonical(d) \notin DOMAIN catalog.info.instrument_type

\* C15: the catalog built from a raw instrument list holds no closed
\* instrument, in the canonical-to-native mapping, the tick sizes or the
\* instrument types, and holds every instrument that is not closed in all
\* three.
C15_ClosedExcludedOthersPresent ==
    (Parsed /\ ~catalog.raised) =>
        \A i \in 1..Len(catalog.data) :
            IF catalog.data[i].status = "closed"
            THEN NowhereInCatalog(catalog.data[i])
            ELSE InCatalog(catalog.data[i])

\* A catalog was built from a list with a closed instrument, whose
\* descriptor lacks a field, before an instrument that is not closed.
C15_Witness ==
    /\ Parsed
    /\ ~catalog.raised
    /\ Len(catalog.data) >= 2
    /\ catalog.data[1].status = "closed"
    /\ ~WellFormed(catalog.data[1])
    /\ catalog.data[2].status = "cancel_only"
    /\ DOMAIN catalog.ret = {Canonical(catalog.data[2])}

\* C16: building the catalog from a list in which a descriptor lacks a
\* required field raises no error, and every well-formed descriptor of the
\* list that is not closed is in the catalog.
C16_MalformedDescriptorSkipped ==
    (Parsed /\ \E i \in 1..Len(catalog.data) : ~WellFormed(catalog.data[i])) =>
        /\ ~catalog.raised
        /\ \A i \in 1..Len(catalog.data) :
                (WellFormed(catalog.data[i]) /\ catalog.data[i].status # "closed")
                    => InCatalog(catalog.data[i])

\* C17: only a book-update frame changes a replica, and only the replica of
\* the symbol it names: when handling a frame leaves the replica of a symbol
\* other than it was, the frame is a book update for that symbol.  A trade,
\* an order event or list, a heartbeat, an acknowledgement, an auction frame
\* and an unrecognised frame leave every replica as it was.
C17_OnlyBookFramesMutate ==
    [][Handled' =>
         \A sym \in NativeSymbols :
            l2_book'[Std(sym)] # l2_book[Std(sym)] => BookFrameFor(sym)']_vars

\* A trade was handled and emitted for a symbol while the replicas of both
\* symbols hold levels.
C17_Witness ==
    /\ Handled
    /\ IsTradeFrame(call.frame)
    /\ Len(emitted) = 1
    /\ emitted[1].channel = TRADES
    /\ \A s \in StdSymbols : l2_book[s] # NoBook /\ Levels(l2_book[s]) > 0

\* Every change of the frame is a removal of a level the replica does not
\* hold; so is a frame with no change at all.
OnlyAbsentRemovals(changes, book) ==
    \A i \in 1..Len(changes) :
        /\ IsDecimal(changes[i][2])
        /\ IsDecimal(changes[i][3])
        /\ Decimal(changes[i][3]) = 0
        /\ Decimal(changes[i][2]) \notin DOMAIN book[SideOf(changes[i])]

\* C19: every book-update frame that passes the interest filter emits
\* exactly one book callback; when its changes list is empty or holds only
\* removals of levels that are not there, the replica stays as it was and the
\* delta emitted has no entry on either side, or is none when the bid side
\* was empty as the frame was entered.
C19_OneCallbackPerPassingFrame ==
    [][\A sym \in NativeSymbols :
         (BookFrameFor(sym)' /\ ~BookFiltered(sym)) =>
            /\ BookEmittedFor(sym)'
            /\ OnlyAbsentRemovals(call'.frame.fields.changes, l2_book[Std(sym)]) =>
                    /\ l2_book' = l2_book
                    /\ emitted'[1].delta =
                            IF DOMAIN l2_book[Std(sym)].bid = {} THEN None ELSE EmptyDelta]_vars

\* The symbols listed under the channels of the connection's endpoint.
SymbolsOf(c) ==
    {s \in NativeSymbols :
        \E ch \in (DOMAIN subscription) \cap channel_filter(c) : s \in subscription[ch]}

\* C20: subscribe on a connection whose subscription holds the order-info
\* channel sends nothing and resets no replica; on any other connection it
\* resets the replica of every symbol listed under any channel of the
\* connection's subscription and sends exactly one subscribe message, which
\* names the l2 subscription with all of those symbols.
C20_SubscribePerConnection ==
    [][\A c \in Conns :
         (Subscribed' /\ call'.conn = c) =>
            IF ORDER_INFO \in (DOMAIN subscription) \cap channel_filter(c)
            THEN /\ sent' = <<>>
                 /\ l2_book' = l2_book
            ELSE /\ \A s \in SymbolsOf(c) : l2_book'[Std(s)] = OrderBook
                 /\ Len(sent') = 1
                 /\ sent'[1].type = "subscribe"
                 /\ Len(sent'[1].subscriptions) = 1
                 /\ sent'[1].subscriptions[1].name = "l2"
                 /\ sent'[1].subscriptions[1].symbols = SymbolsOf(c)]_vars

\* subscribe on the market-data connection has sent a message naming a
\* symbol that is listed under the trade channel and not under the book
\* channel, and that symbol's replica is empty.
C20_Witness ==
    /\ Subscribed
    /\ call.conn = "marketdata"
    /\ Len(sent) = 1
    /\ \E s \in sent[1].subscriptions[1].symbols :
            /\ L2_BOOK \in DOMAIN subscription
            /\ s \notin subscription[L2_BOOK]
            /\ subscription[L2_BOOK] # {}
            /\ l2_book[Std(s)] = OrderBook

(***************************************************************************)
(* Consumer specification: the book specification with a consumer          *)
(* attached, which starts from empty copies.                               *)
(***************************************************************************)
InitConsumer ==
    /\ subscription = [ch \in {L2_BOOK} |-> {"BTCUSD"}]
    /\ credentials = NoCredentials
    /\ consumer = EmptyCopies
    /\ Constructed

NextConsumer ==
    \/ subscribe("marketdata")
    \/ \E frame \in RichBookFrames : message_handler(frame, "marketdata")

SpecConsumer == InitConsumer /\ [][NextConsumer]_vars

\* C18: after every book callback the copy of a consumer that replaces it
\* with the replica on delta = none and applies the delta to it otherwise
\* equals the adapter's replica of that symbol, whatever subscribes and
\* frames, malformed ones among them, came before.
C18_ConsumerCopyEqualsReplica ==
    \A sym \in NativeSymbols :
        BookEmittedFor(sym) => consumer[Std(sym)] = l2_book[Std(sym)]
====
